---- MODULE Spec2Model ----
(***************************************************************************)
(* SCAP Prometheus exporter: the XCCDF result parser (SCAPParser), the     *)
(* scanner wrapper (SCAPScanner), the metric sink (PrometheusExporter),    *)
(* the HTTP handler (MetricsHTTPHandler) and the daemon loop               *)
(* (SCAPExporterDaemon) of src/scap_prometheus_exporter.py.                *)
(***************************************************************************)
EXTENDS Integers, Sequences, FiniteSets, TLC

(***************************************************************************)
(* Bounds of the model.                                                    *)
(***************************************************************************)
\* longest list of rule-result elements in a parsed document
MaxRules == 2

(***************************************************************************)
(* XML documents.  An element that is absent is NoElem, an element that is *)
(* present without text has the text NoText (ElementTree's None), and an   *)
(* attribute that is absent is NoAttr.                                     *)
(***************************************************************************)
NoElem == "<no element>"
NoText == "<no text>"
NoAttr == "<no attribute>"

\* str.lower() on the strings the documents of this model contain; every
\* other string of the model is lower case already.
Lower(s) ==
    CASE s = "FAIL" -> "fail"
      [] s = "Medium" -> "medium"
      [] OTHER -> s

\* idref attributes of rule-result elements: r1 and r2 are defined by the
\* benchmarks below, r9 by none.
RuleRefs == {"r1", "r2", "r9"}

\* text of the xccdf:result child of a rule-result
ResultTexts ==
    {NoElem, NoText, "pass", "fail", "FAIL", "error", "unknown",
     "notapplicable", "notchecked", "informational", "notselected"}

RuleResults == [idref : RuleRefs, result : ResultTexts]

RECURSIVE SeqsUpTo(_, _)
SeqsUpTo(S, n) ==
    IF n = 0 THEN {<<>>}
    ELSE LET shorter == SeqsUpTo(S, n - 1)
         IN  shorter \cup {Append(s, x) : s \in {t \in shorter : Len(t) = n - 1}, x \in S}

\* xccdf:Benchmark elements: id and version attributes and the Rule
\* definitions (severity attribute, text of the title child).
Benchmarks ==
    { [id |-> "b1", version |-> "1.0",
       rules |-> ("r1" :> [severity |-> "high", title |-> "T1"]
               @@ "r2" :> [severity |-> "Medium", title |-> NoElem])],
      [id |-> "b2", version |-> NoAttr,
       rules |-> ("r1" :> [severity |-> "low", title |-> NoText]
               @@ "r2" :> [severity |-> "info", title |-> "T2"])],
      [id |-> NoAttr, version |-> "2.0",
       rules |-> ("r1" :> [severity |-> "critical", title |-> "T1"]
               @@ "r2" :> [severity |-> NoAttr, title |-> "T2"])] }

NoBenchmark == [id |-> NoElem, version |-> NoElem, rules |-> <<>>]

\* text of xccdf:start-time and the POSIX timestamp datetime.fromisoformat
\* gives for it after 'Z' is replaced by '+00:00'
StartTimes == {"1970-01-01T00:00:01Z", "1970-01-01T00:00:02+00:00"}

IsoParses(s) == s \in StartTimes

Timestamp(s) ==
    CASE s = "1970-01-01T00:00:01Z" -> 1
      [] s = "1970-01-01T00:00:02+00:00" -> 2

\* values time.time() returns
Times == {7, 8}

\* The part of a document above its rule-results.
\*   wellformed:   ET.parse succeeds
\*   benchmark:    the first xccdf:Benchmark below the root, or NoBenchmark
\*   testresult:   "root" (the root is the TestResult), "nested" (one is found
\*                 below the root) or NoElem
\*   profile:      idref of the xccdf:profile child (NoAttr, NoElem)
\*   target:       text of the xccdf:target child (NoText, NoElem)
\*   start_time:   text of the xccdf:start-time child (NoText, NoElem)
Header(wf, b, tr, p, t, st) ==
    [wellformed |-> wf, benchmark |-> b, testresult |-> tr,
     profile |-> p, target |-> t, start_time |-> st]

OkHeaders ==
    { Header(TRUE, b, x[1], x[2], x[3], x[4]) :
        b \in Benchmarks,
        x \in { <<"root", "p1", "h1", "1970-01-01T00:00:01Z">>,
                <<"nested", NoElem, NoElem, NoElem>>,
                <<"nested", NoAttr, NoText, "yesterday">>,
                <<"root", "p2", "h2", NoText>> } }

BadHeaders ==
    { Header(FALSE, NoBenchmark, NoElem, NoElem, NoElem, NoElem),
      Header(TRUE, NoBenchmark, "root", "p1", "h1", NoElem),
      Header(TRUE, CHOOSE b \in Benchmarks : b.id = "b1", NoElem, NoElem, NoElem, NoElem) }

MakeDoc(h, rs) == [header |-> h, rules |-> rs]

(***************************************************************************)
(* SCAPParser.parse_results                                                *)
(***************************************************************************)
\* Python's None where a SCAPResult is expected, and where a string is
None == [none |-> TRUE]
NoneStr == "<None>"

MetricKeys ==
    {"total_rules", "passed_rules", "failed_rules", "error_rules",
     "unknown_rules", "notapplicable_rules", "notchecked_rules",
     "informational_rules", "severity_high_failed", "severity_medium_failed",
     "severity_low_failed", "severity_info_failed"}

\* the counters, all zero
InitMetrics == [k \in MetricKeys |-> 0]

\* result status -> metric key
status_mapping ==
    "pass" :> "passed_rules" @@ "fail" :> "failed_rules"
    @@ "error" :> "error_rules" @@ "unknown" :> "unknown_rules"
    @@ "notapplicable" :> "notapplicable_rules"
    @@ "notchecked" :> "notchecked_rules"
    @@ "informational" :> "informational_rules"

\* metrics['total_rules'] += 1
CountTotal(metrics) == [metrics EXCEPT !["total_rules"] = @ + 1]

\* a bug: every status that is not in the table is counted as unknown
CountStatusCatchAll(metrics, result_status) ==
    IF result_status \in DOMAIN status_mapping
    THEN [metrics EXCEPT ![status_mapping[result_status]] = @ + 1]
    ELSE [metrics EXCEPT !["unknown_rules"] = @ + 1]

\* if result_status in status_mapping: metrics[status_mapping[...]] += 1
CountStatus(metrics, result_status) ==
    IF result_status \in DOMAIN status_mapping
    THEN [metrics EXCEPT ![status_mapping[result_status]] = @ + 1]
    ELSE metrics

\* benchmark.find('.//xccdf:Rule[@id=...]'), then the severity and the title
\* of the rule: <<severity, rule_title>>
ResolveRule(benchmark, rule_id) ==
    IF rule_id \in DOMAIN benchmark.rules
    THEN LET rule_def == benchmark.rules[rule_id]
         IN  << Lower(IF rule_def.severity = NoAttr THEN "unknown"
                      ELSE rule_def.severity),
                IF rule_def.title \in {NoElem, NoText} THEN rule_id
                ELSE rule_def.title >>
    ELSE <<"unknown", rule_id>>

\* f'severity_{severity}_failed'
severity_key(severity) == "severity_" \o severity \o "_failed"

\* a bug: the severity of every rule is counted, failed or not
CountSeverityAnyStatus(metrics, result_status, severity) ==
    IF severity_key(severity) \in DOMAIN metrics
    THEN [metrics EXCEPT ![severity_key(severity)] = @ + 1]
    ELSE metrics

\* if result_status == 'fail' and the severity key is a counter: += 1
CountSeverity(metrics, result_status, severity) ==
    IF result_status = "fail" /\ severity_key(severity) \in DOMAIN metrics
    THEN [metrics EXCEPT ![severity_key(severity)] = @ + 1]
    ELSE metrics

\* a bug: only rules with a status of the table get a detail entry
AppendDetailMatched(rule_details, rule_id, rule_title, result_status, severity) ==
    IF result_status \in DOMAIN status_mapping
    THEN Append(rule_details,
                [rule_id |-> rule_id, title |-> rule_title,
                 result |-> result_status, severity |-> severity])
    ELSE rule_details

\* rule_details.append({...})
AppendDetail(rule_details, rule_id, rule_title, result_status, severity) ==
    Append(rule_details,
           [rule_id |-> rule_id, title |-> rule_title,
            result |-> result_status, severity |-> severity])

\* One pass of the loop over the rule-result elements.  acc.raised is set
\* when the body raises (None has no lower()), which ends the loop.
RuleStep(acc, benchmark, rule_result) ==
    LET rule_id == rule_result.idref
        counted == CountTotal(acc.metrics)
    IN  IF rule_result.result = NoElem
        THEN [acc EXCEPT !.metrics = counted]
        ELSE IF rule_result.result = NoText
        THEN [acc EXCEPT !.metrics = counted, !.raised = TRUE]
        ELSE LET result_status == Lower(rule_result.result)
                 rule == ResolveRule(benchmark, rule_id)
                 severity == rule[1]
                 rule_title == rule[2]
             IN  [acc EXCEPT
                    !.metrics = CountSeverity(CountStatus(counted, result_status),
                                              result_status, severity),
                    !.rule_details = AppendDetail(@, rule_id, rule_title,
                                                  result_status, severity)]

\* for rule_result in test_result.findall('xccdf:rule-result'), from the i-th
RECURSIVE ProcessRules(_, _, _, _)
ProcessRules(acc, benchmark, rules, i) ==
    IF i > Len(rules) \/ acc.raised THEN acc
    ELSE ProcessRules(RuleStep(acc, benchmark, rules[i]), benchmark, rules, i + 1)

\* The compliance score is a float; the model keeps it as the fraction
\* num / den, with den > 0.
Fraction(n, d) == [num |-> n, den |-> d]

\* a bug: the rules that were not checked stay in the denominator
ComplianceScoreKeepsNotchecked(metrics) ==
    IF metrics["total_rules"] > 0
       /\ metrics["total_rules"] - metrics["notapplicable_rules"] > 0
    THEN Fraction(metrics["passed_rules"] * 100,
                  metrics["total_rules"] - metrics["notapplicable_rules"])
    ELSE Fraction(0, 1)

\* compliance = passed / (total - notapplicable - notchecked) * 100, or 0.0
ComplianceScore(metrics) ==
    LET applicable_rules == metrics["total_rules"] - metrics["notapplicable_rules"]
                            - metrics["notchecked_rules"]
    IN  IF metrics["total_rules"] > 0 /\ applicable_rules > 0
        THEN Fraction(metrics["passed_rules"] * 100, applicable_rules)
        ELSE Fraction(0, 1)

\* profile, target host and scan time of the TestResult
ProfileOf(h) == IF h.profile \in {NoElem, NoAttr} THEN "unknown" ELSE h.profile

\* hostname is the caller's, NoneStr when the caller gave none; a target element
\* without text gives None as well
TargetHostname(h, hostname) ==
    IF h.target = NoElem
    THEN (IF hostname = NoneStr THEN "unknown" ELSE hostname)
    ELSE (IF h.target = NoText THEN NoneStr ELSE h.target)

ScanTime(h, now) ==
    IF h.start_time # NoElem /\ IsoParses(h.start_time)
    THEN Timestamp(h.start_time)
    ELSE now

\* parse_results(xml_file, hostname): a SCAPResult or None.  now is the value
\* of time.time() during the call.
parse_results(doc, hostname, now) ==
    LET h == doc.header
    IN  IF ~h.wellformed THEN None
        ELSE IF h.benchmark = NoBenchmark THEN None
        ELSE IF h.testresult = NoElem THEN None
        ELSE LET acc == ProcessRules([metrics |-> InitMetrics,
                                      rule_details |-> <<>>, raised |-> FALSE],
                                     h.benchmark, doc.rules, 1)
             IN  IF acc.raised THEN None
                 ELSE [hostname |-> TargetHostname(h, hostname),
                       profile |-> ProfileOf(h),
                       scan_time |-> ScanTime(h, now),
                       compliance_score |-> ComplianceScore(acc.metrics),
                       benchmark_id |-> IF h.benchmark.id = NoAttr THEN "unknown"
                                        ELSE h.benchmark.id,
                       benchmark_version |-> IF h.benchmark.version = NoAttr
                                             THEN "unknown"
                                             ELSE h.benchmark.version,
                       rule_details |-> acc.rule_details,
                       metrics |-> acc.metrics]

(***************************************************************************)
(* PrometheusExporter: the registry and update_metrics.                    *)
(***************************************************************************)
\* str() of a label value or of a part of an f-string
Str(s) == IF s = NoneStr THEN "None" ELSE s

\* datetime.fromtimestamp(t).isoformat(), for the timestamps of the model
IsoFormat(t) ==
    CASE t = 1 -> "1970-01-01T00:00:01"
      [] t = 2 -> "1970-01-01T00:00:02"
      [] t = 7 -> "1970-01-01T00:00:07"
      [] t = 8 -> "1970-01-01T00:00:08"

\* The registry after _setup_metrics: every metric family without a series.
\* A family maps the label values of its series to the value of the series.
EmptyRegistry ==
    [compliance_score |-> <<>>, total_rules |-> <<>>, rules_by_status |-> <<>>,
     failed_by_severity |-> <<>>, last_scan_timestamp |-> <<>>, scan_info |-> <<>>]

\* metric.labels(*key).set(value)
SetSeries(family, key, value) == (key :> value) @@ family

Labels(r) == <<Str(r.hostname), Str(r.profile), Str(r.benchmark_id)>>

\* status label -> counter of the record
status_metrics ==
    "passed" :> "passed_rules" @@ "failed" :> "failed_rules"
    @@ "error" :> "error_rules" @@ "unknown" :> "unknown_rules"
    @@ "notapplicable" :> "notapplicable_rules"
    @@ "notchecked" :> "notchecked_rules"
    @@ "informational" :> "informational_rules"

\* severity label -> counter of the record
severity_metrics ==
    "high" :> "severity_high_failed" @@ "medium" :> "severity_medium_failed"
    @@ "low" :> "severity_low_failed" @@ "info" :> "severity_info_failed"

\* update_metrics, the main gauges
UpdateMain(reg, r) ==
    [reg EXCEPT
       !.compliance_score = SetSeries(@, Labels(r), r.compliance_score),
       !.total_rules = SetSeries(@, Labels(r), r.metrics["total_rules"]),
       !.last_scan_timestamp = SetSeries(@, Labels(r), r.scan_time)]

\* update_metrics, for status, count in status_metrics.items()
UpdateStatus(reg, r) ==
    [reg EXCEPT !.rules_by_status =
        [k \in {Labels(r) \o <<st>> : st \in DOMAIN status_metrics} |->
            r.metrics[status_metrics[k[4]]]] @@ @]

\* update_metrics, for severity, count in severity_metrics.items()
UpdateSeverity(reg, r) ==
    [reg EXCEPT !.failed_by_severity =
        [k \in {Labels(r) \o <<sv>> : sv \in DOMAIN severity_metrics} |->
            r.metrics[severity_metrics[k[4]]]] @@ @]

\* update_metrics, scan_info.labels(hostname, profile).info({...})
UpdateInfo(reg, r) ==
    [reg EXCEPT !.scan_info =
        SetSeries(@, <<Str(r.hostname), Str(r.profile)>>,
                  [benchmark_id |-> r.benchmark_id,
                   benchmark_version |-> r.benchmark_version,
                   scan_time |-> IsoFormat(r.scan_time)])]

\* key = f"{result.hostname}_{result.profile}"
ResultKey(r) == Str(r.hostname) \o "_" \o Str(r.profile)

\* a bug: a key that is stored already keeps its record
StoreResultKeepFirst(latest, r) == latest @@ (ResultKey(r) :> r)

\* self.latest_results[key] = result
StoreResult(latest, r) == (ResultKey(r) :> r) @@ latest

\* the steps of update_metrics, in the order of the code
UpdateSteps == 1..4

UpdateStep(reg, r, step) ==
    CASE step = 1 -> UpdateMain(reg, r)
      [] step = 2 -> UpdateStatus(reg, r)
      [] step = 3 -> UpdateSeverity(reg, r)
      [] step = 4 -> UpdateInfo(reg, r)

(***************************************************************************)
(* MetricsHTTPHandler.do_GET                                               *)
(***************************************************************************)
Paths == {"/metrics", "/health", "/results", "/favicon.ico"}

NoResponse == [path |-> "", status |-> 0, body |-> <<>>]

\* a bug: the handler answers 503 until the registry holds a series
do_GET_NotReady(path, reg, latest) ==
    CASE path = "/metrics" ->
           IF reg = EmptyRegistry
           THEN [path |-> path, status |-> 503, body |-> <<>>]
           ELSE [path |-> path, status |-> 200, body |-> reg]
      [] path = "/health" -> [path |-> path, status |-> 200, body |-> <<"healthy">>]
      [] path = "/results" -> [path |-> path, status |-> 200, body |-> latest]
      [] OTHER -> [path |-> path, status |-> 404, body |-> <<>>]

\* do_GET: the response to a request for path; generate_latest(registry)
\* is the registry's series, json.dumps(results_json) the stored records
do_GET(path, reg, latest) ==
    CASE path = "/metrics" -> [path |-> path, status |-> 200, body |-> reg]
      [] path = "/health" -> [path |-> path, status |-> 200, body |-> <<"healthy">>]
      [] path = "/results" -> [path |-> path, status |-> 200, body |-> latest]
      [] OTHER -> [path |-> path, status |-> 404, body |-> <<>>]

(***************************************************************************)
(* Configuration and the documents the scanner writes.                     *)
(***************************************************************************)
\* most temporary results files that exist at once
MaxTmpFiles == 2

\* a scan entry without a profile, and one without a content_file
NoProfile == "<no profile>"
NoContentFile == "<no content_file>"

ScanEntry(p, c) == [profile |-> p, content_file |-> c]

\* config['scans']
Configs ==
    { <<>>,
      <<ScanEntry("p1", "ssg-ds.xml")>>,
      <<ScanEntry("p1", "ssg-ds.xml"), ScanEntry(NoProfile, NoContentFile),
        ScanEntry("p2", NoContentFile)>> }

\* config['hostname']
ConfigHostname == "cfghost"

\* exit codes of the scanner; a negative one is a scanner killed by a signal
ExitCodes == {-9, 0, 1, 2, 3}

\* a bug: exit code 2 is taken for a failure of the scanner
ScanFailedFromTwo(returncode) == returncode >= 2

\* if result.returncode > 2
ScanFailed(returncode) == returncode > 2

BenchmarkById(id) == CHOOSE b \in Benchmarks : b.id = id

\* what the scanner leaves in the results file
ScanDocs ==
    { MakeDoc(Header(TRUE, BenchmarkById("b1"), "root", "p1", "h1",
                     "1970-01-01T00:00:01Z"),
              << [idref |-> "r1", result |-> "pass"],
                 [idref |-> "r1", result |-> "fail"] >>),
      MakeDoc(Header(TRUE, BenchmarkById("b2"), "nested", "p1", "h1",
                     "1970-01-01T00:00:02+00:00"),
              << [idref |-> "r2", result |-> "FAIL"],
                 [idref |-> "r9", result |-> "notselected"] >>),
      MakeDoc(Header(TRUE, BenchmarkById("b1"), "nested", "p2", NoElem, NoElem),
              << [idref |-> "r2", result |-> "pass"] >>),
      MakeDoc(Header(FALSE, NoBenchmark, NoElem, NoElem, NoElem, NoElem), <<>>) }

(***************************************************************************)
(* State.                                                                  *)
(***************************************************************************)
VARIABLES
    pc,             \* where the main thread is
    doc,            \* the document in the file handed to parse_results
    caller,         \* the hostname argument of parse_results
    result,         \* what parse_results returned
    scans,          \* config['scans']
    idx,            \* the position of the for loop in scans
    running,        \* self.running
    interrupted,    \* a KeyboardInterrupt was raised in the main thread
    tmpfiles,       \* the temporary results files that exist
    created,        \* scan: the file mkstemp created (0: none)
    returncode,     \* scan: <<result.returncode>> (<<>>: no exit code)
    results_file,   \* scan_and_update: what scan returned (0: None)
    step,           \* update_metrics: the next step of the call
    registry,       \* the series of the exporter's registry
    latest_results, \* exporter.latest_results
    server,         \* the HTTP server: "none", "open", "closed"
    http_pc,        \* the serve thread: "off", "waiting", "stopped"
    response        \* the last response of the HTTP handler

pvars == <<doc, caller, result>>
svars == <<scans, idx, running, interrupted, tmpfiles, created, returncode,
           results_file, step>>
evars == <<registry, latest_results>>
hvars == <<server, http_pc, response>>
vars == <<pc, doc, caller, result, scans, idx, running, interrupted, tmpfiles,
          created, returncode, results_file, step, registry, latest_results,
          server, http_pc, response>>

NoDoc == MakeDoc(Header(FALSE, NoBenchmark, NoElem, NoElem, NoElem, NoElem), <<>>)

\* the daemon's state before run() is called
DaemonIdle ==
    /\ idx = 0
    /\ running = FALSE
    /\ interrupted = FALSE
    /\ tmpfiles = {}
    /\ created = 0
    /\ returncode = <<>>
    /\ results_file = 0
    /\ step = 0
    /\ registry = EmptyRegistry
    /\ latest_results = <<>>
    /\ server = "none"
    /\ http_pc = "off"
    /\ response = NoResponse

(***************************************************************************)
(* A call of parse_results on a document, as test_parser and the           *)
(* --results-file mode of main make it.                                    *)
(***************************************************************************)
ParseDocs == { MakeDoc(h, rs) : h \in OkHeaders \cup BadHeaders,
                                rs \in SeqsUpTo(RuleResults, MaxRules) }

InitParse ==
    /\ pc = "parse_call"
    /\ doc \in ParseDocs
    /\ caller \in {NoneStr, "test-server"}
    /\ result = None
    /\ scans = <<>>
    /\ DaemonIdle

\* result = parser.parse_results(results_file, hostname)
Parse ==
    /\ pc = "parse_call"
    /\ \E now \in Times : result' = parse_results(doc, caller, now)
    /\ pc' = "parse_done"
    /\ UNCHANGED <<doc, caller, svars, evars, hvars>>

NextParse == Parse

SpecParse == InitParse /\ [][NextParse]_vars

(***************************************************************************)
(* SCAPExporterDaemon.run with SCAPScanner.scan, scan_and_update and the   *)
(* serve thread.  The main thread blocks in subprocess.run and in          *)
(* time.sleep; a KeyboardInterrupt is delivered to it while it is blocked. *)
(***************************************************************************)
Init ==
    /\ pc = "start"
    /\ doc = NoDoc
    /\ caller = ConfigHostname
    /\ result = None
    /\ scans \in Configs
    /\ DaemonIdle

\* the process is alive and run() is past start_http_server
Alive == pc \notin {"start", "returned", "exited"}

\* run(): self.running = True, start_http_server, return when no scan is
\* configured
Start ==
    /\ pc = "start"
    /\ running' = TRUE
    /\ server' = "open"
    /\ http_pc' = "waiting"
    /\ pc' = IF scans = <<>> THEN "returned" ELSE "while"
    /\ UNCHANGED <<pvars, scans, idx, interrupted, tmpfiles, created, returncode,
                   results_file, step, evars, response>>

\* while self.running:
While ==
    /\ pc = "while"
    /\ IF running
       THEN pc' = "for" /\ idx' = 1
       ELSE pc' = "finally" /\ idx' = idx
    /\ UNCHANGED <<pvars, scans, running, interrupted, tmpfiles, created,
                   returncode, results_file, step, evars, hvars>>

\* for scan_config in scans: the list is exhausted
ForEnd ==
    /\ pc = "for"
    /\ idx > Len(scans)
    /\ pc' = "while"
    /\ UNCHANGED <<pvars, svars, evars, hvars>>

\* if not profile: continue
ForSkip ==
    /\ pc = "for"
    /\ idx <= Len(scans)
    /\ scans[idx].profile = NoProfile
    /\ idx' = idx + 1
    /\ UNCHANGED <<pc, pvars, scans, running, interrupted, tmpfiles, created,
                   returncode, results_file, step, evars, hvars>>

\* tempfile.mkstemp: a name no existing file has
FreshFile == CHOOSE f \in 1..(MaxTmpFiles + 1) : f \notin tmpfiles

\* scan_and_update calls scan: mkstemp, the content file, and the scanner
\* is started; without a content file scan returns None at once
ScanStart ==
    /\ pc = "for"
    /\ idx <= Len(scans)
    /\ scans[idx].profile # NoProfile
    /\ Cardinality(tmpfiles) < MaxTmpFiles
    /\ tmpfiles' = tmpfiles \cup {FreshFile}
    /\ created' = FreshFile
    /\ results_file' = 0
    /\ returncode' = <<>>
    /\ result' = None
    /\ \E found \in BOOLEAN :
         /\ scans[idx].content_file # NoContentFile => found
         /\ pc' = IF found THEN "subprocess" ELSE "check_running"
    /\ UNCHANGED <<doc, caller, scans, idx, running, interrupted, step, evars, hvars>>

\* os.unlink(results_file)
Unlink(files, f) == files \ {f}

\* subprocess.run returns with an exit code; the scanner left d in the file
ScanExit ==
    /\ pc = "subprocess"
    /\ \E rc \in ExitCodes, d \in ScanDocs :
         /\ returncode' = <<rc>>
         /\ IF ScanFailed(rc)
            THEN /\ tmpfiles' = Unlink(tmpfiles, created)
                 /\ results_file' = 0
                 /\ pc' = "check_running"
                 /\ doc' = doc
            ELSE /\ tmpfiles' = tmpfiles
                 /\ results_file' = created
                 /\ pc' = "parsing"
                 /\ doc' = d
    /\ UNCHANGED <<caller, result, scans, idx, running, interrupted, created,
                   step, evars, hvars>>

\* subprocess.run raises TimeoutExpired or another Exception: return None
ScanRaises ==
    /\ pc = "subprocess"
    /\ results_file' = 0
    /\ pc' = "check_running"
    /\ UNCHANGED <<pvars, scans, idx, running, interrupted, tmpfiles, created,
                   returncode, step, evars, hvars>>

\* a bug: the file is removed only when the parse gave a record
UnlinkAfterParseOnSuccess(files, f, res) == IF res = None THEN files ELSE files \ {f}

\* os.unlink(results_file) after parse_results returned res
UnlinkAfterParse(files, f, res) == Unlink(files, f)

\* a bug: the record is not checked before update_metrics is called
AfterParseUnchecked(res) == "updating"

\* if not result: return; else exporter.update_metrics(result)
AfterParse(res) == IF res = None THEN "check_running" ELSE "updating"

\* scan_and_update: parse_results, os.unlink, return when there is no record
ParseResults ==
    /\ pc = "parsing"
    /\ \E now \in Times : result' = parse_results(doc, caller, now)
    /\ tmpfiles' = UnlinkAfterParse(tmpfiles, results_file, result')
    /\ pc' = AfterParse(result')
    /\ step' = IF result' = None THEN step ELSE 1
    /\ returncode' = <<>>
    /\ doc' = NoDoc
    /\ UNCHANGED <<caller, scans, idx, running, interrupted, created,
                   results_file, evars, hvars>>

\* scan_and_update: one step of exporter.update_metrics(result); the last
\* one stores the record in latest_results
UpdateMetrics ==
    /\ pc = "updating"
    /\ registry' = UpdateStep(registry, result, step)
    /\ IF step = 4
       THEN /\ latest_results' = StoreResult(latest_results, result)
            /\ pc' = "check_running"
            /\ step' = 0
       ELSE /\ latest_results' = latest_results
            /\ pc' = pc
            /\ step' = step + 1
    /\ UNCHANGED <<pvars, scans, idx, running, interrupted, tmpfiles, created,
                   returncode, results_file, hvars>>

\* a bug: the next scan starts at once
AfterCycleRetry(run) == IF ~run THEN "while" ELSE "for"

\* after scan_and_update: if not self.running: break; else time.sleep
AfterCycle(run) == IF ~run THEN "while" ELSE "sleeping"

\* scan_and_update has returned and its locals are gone
CheckRunning ==
    /\ pc = "check_running"
    /\ pc' = AfterCycle(running)
    /\ returncode' = <<>>
    /\ created' = 0
    /\ results_file' = 0
    /\ result' = None
    /\ UNCHANGED <<doc, caller, scans, idx, running, interrupted, tmpfiles,
                   step, evars, hvars>>

\* time.sleep(interval) returns
Wake ==
    /\ pc = "sleeping"
    /\ idx' = idx + 1
    /\ pc' = "for"
    /\ UNCHANGED <<pvars, scans, running, interrupted, tmpfiles, created,
                   returncode, results_file, step, evars, hvars>>

\* KeyboardInterrupt in the main thread while it is blocked: neither scan
\* nor scan_and_update catches it (except Exception), run does
Interrupt ==
    /\ pc \in {"subprocess", "sleeping"}
    /\ interrupted' = TRUE
    /\ pc' = "finally"
    /\ UNCHANGED <<pvars, scans, idx, running, tmpfiles, created, returncode,
                   results_file, step, evars, hvars>>

\* finally: self.running = False; server.server_close()
Finally ==
    /\ pc = "finally"
    /\ running' = FALSE
    /\ server' = "closed"
    /\ pc' = "exited"
    /\ UNCHANGED <<pvars, scans, idx, interrupted, tmpfiles, created, returncode,
                   results_file, step, evars, http_pc, response>>

\* another thread clears self.running
RequestStop ==
    /\ Alive
    /\ pc # "finally"
    /\ running
    /\ running' = FALSE
    /\ UNCHANGED <<pc, pvars, scans, idx, interrupted, tmpfiles, created,
                   returncode, results_file, step, evars, hvars>>

\* serve(): server.handle_request() handles one request, then the loop
\* reads self.running
HttpGet ==
    /\ Alive
    /\ server = "open"
    /\ http_pc = "waiting"
    /\ \E path \in Paths : response' = do_GET(path, registry, latest_results)
    /\ http_pc' = IF running THEN "waiting" ELSE "stopped"
    /\ UNCHANGED <<pc, pvars, svars, evars, server>>

Next ==
    \/ Start \/ While \/ ForEnd \/ ForSkip \/ ScanStart \/ ScanExit \/ ScanRaises
    \/ ParseResults \/ UpdateMetrics \/ CheckRunning \/ Wake \/ Interrupt
    \/ Finally \/ RequestStop \/ HttpGet

Spec == Init /\ [][Next]_vars

(***************************************************************************)
(* Claims about parse_results, checked under SpecParse.                    *)
(***************************************************************************)
\* parse_results was called and returned a record
Returned == pc = "parse_done" /\ result # None

KnownStatuses ==
    {"pass", "fail", "error", "unknown", "notapplicable", "notchecked",
     "informational"}

StatusBuckets ==
    {"passed_rules", "failed_rules", "error_rules", "unknown_rules",
     "notapplicable_rules", "notchecked_rules", "informational_rules"}

SeverityBuckets ==
    {"severity_high_failed", "severity_medium_failed", "severity_low_failed",
     "severity_info_failed"}

RECURSIVE SumOver(_, _)
SumOver(m, keys) ==
    IF keys = {} THEN 0
    ELSE LET k == CHOOSE x \in keys : TRUE
         IN  m[k] + SumOver(m, keys \ {k})

\* the positions of the document's rule-results that satisfy P
RulesWhere(P(_)) == {i \in 1..Len(doc.rules) : P(doc.rules[i])}

HasResult(rr) == rr.result # NoElem
Matched(rr) == HasResult(rr) /\ Lower(rr.result) \in KnownStatuses
Unmatched(rr) == ~Matched(rr)
Failed(rr) == HasResult(rr) /\ Lower(rr.result) = "fail"

\* the severity label the benchmark of the document gives a rule-result,
\* lower-cased; "unknown" without a rule definition or a severity attribute
SeverityLabel(rr) ==
    LET rules == doc.header.benchmark.rules
    IN  IF rr.idref \in DOMAIN rules /\ rules[rr.idref].severity # NoAttr
        THEN Lower(rules[rr.idref].severity)
        ELSE "unknown"

\* C1 as stated: total_rules is the sum of the seven status buckets, for
\* every document that parse_results returns a record for.
C1_TotalIsSumOfBuckets ==
    Returned => result.metrics["total_rules"] = SumOver(result.metrics, StatusBuckets)

\* C1 amended: total_rules is the number of rule-result elements, and it is
\* the sum of the seven status buckets plus the number of rule-results that
\* have no result element or a status text outside the seven keywords.
C1_TotalIsBucketsPlusUnmatched ==
    Returned =>
        /\ result.metrics["total_rules"] = Len(doc.rules)
        /\ result.metrics["total_rules"] =
             SumOver(result.metrics, StatusBuckets) + Cardinality(RulesWhere(Unmatched))
        /\ \A s \in KnownStatuses :
             result.metrics[status_mapping[s]] =
               Cardinality({i \in RulesWhere(Matched) : Lower(doc.rules[i].result) = s})

\* C1 witness: a record for a document with a counted and an uncounted status
C1_Witness ==
    /\ Returned
    /\ result.metrics["passed_rules"] = 1
    /\ result.metrics["total_rules"] = 2
    /\ \E i \in 1..Len(doc.rules) : doc.rules[i].result = "notselected"

\* C2: the four severity counters sum to at most failed_rules; each counts
\* the failed rule-results whose rule definition carries that severity, so a
\* failed rule with another severity, or without a rule definition, is in
\* failed_rules and in no severity counter.
C2_SeverityWithinFailed ==
    Returned =>
        /\ SumOver(result.metrics, SeverityBuckets) <= result.metrics["failed_rules"]
        /\ result.metrics["failed_rules"] = Cardinality(RulesWhere(Failed))
        /\ \A sev \in {"high", "medium", "low", "info"} :
             result.metrics[severity_key(sev)] =
               Cardinality({i \in RulesWhere(Failed) : SeverityLabel(doc.rules[i]) = sev})
        /\ SumOver(result.metrics, SeverityBuckets) =
             Cardinality({i \in RulesWhere(Failed) :
                            SeverityLabel(doc.rules[i]) \in {"high", "medium", "low", "info"}})

\* C2 witness: two failed rules, one with a severity counter and one without
C2_Witness ==
    /\ Returned
    /\ result.metrics["failed_rules"] = 2
    /\ SumOver(result.metrics, SeverityBuckets) = 1
    /\ \E i \in RulesWhere(Failed) : SeverityLabel(doc.rules[i]) \in {"critical", "unknown"}

\* C3: the compliance score is 0 when total - notapplicable - notchecked <= 0
\* and passed / (total - notapplicable - notchecked) * 100 otherwise, and it
\* lies between 0 and 100.
C3_ComplianceScore ==
    Returned =>
        LET m == result.metrics
            applicable == m["total_rules"] - m["notapplicable_rules"] - m["notchecked_rules"]
            score == result.compliance_score
        IN  /\ score.den > 0
            /\ applicable <= 0 => score.num = 0
            /\ applicable > 0 => score.num * applicable = m["passed_rules"] * 100 * score.den
            /\ 0 <= score.num
            /\ score.num <= 100 * score.den

\* C3 witness: a positive score with a rule left out of the denominator
C3_Witness ==
    /\ Returned
    /\ result.metrics["passed_rules"] = 1
    /\ result.metrics["notchecked_rules"] = 1
    /\ result.metrics["total_rules"] = 2
    /\ result.compliance_score = Fraction(100, 1)

\* C4 as stated: the detail list holds one entry per rule-result with a
\* matched status (a status outside the seven keywords adds no entry).
C4_DetailsOnlyForMatched ==
    Returned => Len(result.rule_details) = Cardinality(RulesWhere(Matched))

\* the rule-results that have a result element, in document order
WithResult == SelectSeq(doc.rules, HasResult)

\* C4 amended: a rule-result with a status outside the seven keywords
\* increments total_rules and no status bucket and does add a detail entry
\* carrying its lower-cased status; the detail list holds one entry per
\* rule-result that has a result element, in document order, and its length
\* is at most total_rules.
C4_DetailsForEveryResult ==
    Returned =>
        /\ Len(result.rule_details) = Len(WithResult)
        /\ \A i \in 1..Len(WithResult) :
             /\ result.rule_details[i].rule_id = WithResult[i].idref
             /\ result.rule_details[i].result = Lower(WithResult[i].result)
             /\ result.rule_details[i].severity = SeverityLabel(WithResult[i])
        /\ Len(result.rule_details) <= result.metrics["total_rules"]
        /\ SumOver(result.metrics, StatusBuckets) = Cardinality(RulesWhere(Matched))

\* C4 witness: a detail entry of a rule-result with an unknown status
C4_Witness ==
    /\ Returned
    /\ Len(result.rule_details) = 2
    /\ result.rule_details[2].result = "notselected"
    /\ result.rule_details[1].result = "fail"
    /\ SumOver(result.metrics, StatusBuckets) = 1

\* C5: parse_results returns no record only for a document that is not
\* well-formed, has no Benchmark or has no TestResult.
C5_FailsOnlyOnStructure ==
    (pc = "parse_done" /\ result = None) =>
        \/ ~doc.header.wellformed
        \/ doc.header.benchmark = NoBenchmark
        \/ doc.header.testresult = NoElem

(***************************************************************************)
(* Claims about the scanner, the daemon loop and the HTTP handler,         *)
(* checked under Spec.                                                     *)
(***************************************************************************)
\* C6: when the scanner subprocess finishes, scan returns the results file,
\* which still exists, if the exit code is 0, 1 or 2; it returns None and
\* the results file is removed if the exit code is greater than 2.
C6_ExitCodeDecides ==
    returncode # <<>> =>
        LET rc == returncode[1]
        IN  /\ rc \in {0, 1, 2} =>
                 /\ created # 0
                 /\ results_file = created
                 /\ created \in tmpfiles
                 /\ pc = "parsing"
            /\ rc > 2 =>
                 /\ results_file = 0
                 /\ created \notin tmpfiles
                 /\ pc = "check_running"

\* C6 witness: the scanner has exited with code 3, an earlier cycle's
\* record is stored
C6_Witness ==
    /\ returncode = <<3>>
    /\ results_file = 0
    /\ created \notin tmpfiles
    /\ DOMAIN latest_results # {}

\* the cycle that scan_and_update just ended had a failed scan or parse
CycleFailed == pc = "check_running" /\ (results_file = 0 \/ result = None)

\* C7: a cycle whose scan or parse fails updates neither a gauge nor
\* latest_results (they change only in the update step of a cycle whose scan
\* and parse succeeded); after it the scheduler sleeps, without a retry,
\* unless a stop was requested; the loop is left only on a stop, and a sleep
\* ends in the next pass of the loop.
C7_FailedCycleKeepsMetrics ==
    [][ /\ (registry' # registry \/ latest_results' # latest_results) =>
             (pc = "updating" /\ results_file # 0 /\ result # None)
        /\ (pc \in {"for", "subprocess", "parsing"} /\ CycleFailed') =>
             UNCHANGED <<registry, latest_results>>
        /\ (CycleFailed /\ pc' # pc) =>
             /\ pc' = IF running THEN "sleeping" ELSE "while"
             /\ UNCHANGED <<registry, latest_results>>
        /\ (pc = "sleeping" /\ pc' # pc) => (pc' = "for" \/ interrupted')
        /\ (pc' = "finally" /\ pc # "finally") =>
             (interrupted' \/ (pc = "while" /\ ~running))
      ]_vars

\* C7 witness: a parse has failed in a cycle after a successful one, whose
\* record is still stored
C7_Witness ==
    /\ CycleFailed
    /\ results_file # 0
    /\ running
    /\ DOMAIN latest_results # {}
    /\ registry # EmptyRegistry

C9_Unavailable503UntilFirstUpdate ==
    response.path = "/metrics" =>
        IF response.body = EmptyRegistry
        THEN response.status = 503
        ELSE response.status = 200

\* C9 amended: GET /metrics answers 200 in every state, also before the
\* first record is applied (the exposition then holds no series); no request
\* is answered 503.
C9_MetricsAlways200 ==
    /\ response.path = "/metrics" => response.status = 200
    /\ response.status # 503

\* C9 witness: /metrics was answered 200 and no record has been applied yet
C9_Witness ==
    /\ response.path = "/metrics"
    /\ response.status = 200
    /\ response.body = EmptyRegistry
    /\ registry = EmptyRegistry
    /\ latest_results = <<>>

\* a stop arrives in this step: an interrupt, or self.running is cleared
StopArrives == (interrupted' /\ ~interrupted) \/ (running /\ ~running')

\* C10: a stop that arrives while the scanner subprocess runs leaves the
\* scan in flight, and when the scheduler leaves its loop the results file
\* of its last scan does not exist.
C10_StopLeavesScanInFlight ==
    [][ /\ (pc = "subprocess" /\ StopArrives) => pc' = "subprocess"
        /\ (pc' = "finally" /\ pc # "finally") =>
             (created' = 0 \/ created' \notin tmpfiles')
      ]_vars

\* a stop has been requested: self.running was cleared after run() set it,
\* or a KeyboardInterrupt was raised
StopRequested == pc # "start" /\ (~running \/ interrupted)

\* the entries from position i on that the for loop will scan
ToScan(i) == {j \in i..Len(scans) : scans[j].profile # NoProfile}

\* C11: a stop requested while the scheduler sleeps is seen before the next
\* scan begins, whatever the number of configured entries: when the sleep
\* ends with the stop requested, no entry is scanned before the loop reads
\* the running flag and exits.
C11_StopSeenBeforeNextScan ==
    [][ (pc = "sleeping" /\ StopRequested /\ pc' = "for") => ToScan(idx') = {} ]_vars

\* C12: the last step of update_metrics stores its record under the key
\* hostname_profile, replacing the record stored there, and leaves every
\* other entry as it was; nothing else changes latest_results.
C12_LatestResultsOverwrite ==
    [][ /\ latest_results' # latest_results => (pc = "updating" /\ step = 4)
        /\ (pc = "updating" /\ step = 4 /\ pc' # pc) =>
             LET key == Str(result.hostname) \o "_" \o Str(result.profile)
             IN  /\ DOMAIN latest_results' = DOMAIN latest_results \cup {key}
                 /\ latest_results'[key] = result
                 /\ \A k \in DOMAIN latest_results \ {key} :
                      latest_results'[k] = latest_results[k]
      ]_vars

\* C12 witness: two keys are stored, and the record of h1_p1 replaced an
\* earlier one of another benchmark, whose series the registry still holds
C12_Witness ==
    /\ pc = "check_running"
    /\ result # None
    /\ Cardinality(DOMAIN latest_results) = 2
    /\ latest_results["h1_p1"] = result
    /\ result.benchmark_id = "b2"
    /\ <<"h1", "p1", "b1">> \in DOMAIN registry.total_rules

\* the records the scanner's documents parse to
ScanRecords ==
    { parse_results(d, ConfigHostname, now) : d \in ScanDocs, now \in Times } \ {None}

\* the gauge series an exposition shows for the labels of r are those of r
ShowsRecord(body, r) ==
    LET l == Labels(r)
    IN  /\ l \in DOMAIN body.compliance_score
        /\ body.compliance_score[l] = r.compliance_score
        /\ l \in DOMAIN body.total_rules
        /\ body.total_rules[l] = r.metrics["total_rules"]
        /\ l \in DOMAIN body.last_scan_timestamp
        /\ body.last_scan_timestamp[l] = r.scan_time
        /\ \A st \in DOMAIN status_metrics :
             /\ l \o <<st>> \in DOMAIN body.rules_by_status
             /\ body.rules_by_status[l \o <<st>>] = r.metrics[status_metrics[st]]
        /\ \A sv \in DOMAIN severity_metrics :
             /\ l \o <<sv>> \in DOMAIN body.failed_by_severity
             /\ body.failed_by_severity[l \o <<sv>>] = r.metrics[severity_metrics[sv]]

\* the label values <<hostname, profile, benchmark>> that have a series
SeriesLabels(body) ==
    DOMAIN body.compliance_score \cup DOMAIN body.total_rules
    \cup DOMAIN body.last_scan_timestamp
    \cup {<<k[1], k[2], k[3]>> : k \in DOMAIN body.rules_by_status}
    \cup {<<k[1], k[2], k[3]>> : k \in DOMAIN body.failed_by_severity}

\* C13: whatever the interleaving of the serve thread with update_metrics, a
\* response to GET /metrics shows, for every label set with a series, the
\* values of one single record, never part of one record and part of another
\* (or of none).
C13_ResponseShowsOneRecord ==
    response.path = "/metrics" =>
        \A l \in SeriesLabels(response.body) :
            \E r \in ScanRecords : Labels(r) = l /\ ShowsRecord(response.body, r)

\* an entry is in its scan, parse or update
InCycle == pc \in {"subprocess", "parsing", "updating"}

\* C14: one entry at a time is in its scan, parse or update, and it is the
\* entry the for loop is at; update_metrics is entered only with the file its
\* scan returned already parsed into a record, and it is in progress (its
\* step counted) nowhere else; a scan begins only when no update is under way.
C14_OneEntryAtATime ==
    /\ InCycle => idx \in ToScan(idx)
    /\ pc = "updating" =>
         /\ results_file # 0 /\ results_file = created
         /\ results_file \notin tmpfiles
         /\ result # None
         /\ step \in UpdateSteps
    /\ pc = "parsing" => results_file # 0 /\ result = None /\ step = 0
    /\ pc = "subprocess" => results_file = 0 /\ result = None /\ step = 0
    /\ step # 0 => pc = "updating"

\* C14 witness: the update of the third entry is under way after the first
\* entry's record was stored
C14_Witness ==
    /\ pc = "updating"
    /\ idx = 3
    /\ step = 2
    /\ "h1_p1" \in DOMAIN latest_results

\* C15: when no update is under way, every series of the registry carries the
\* values of the record that latest_results holds for the series' hostname
\* and profile; no series of a superseded record stays exposed.
C15_SeriesAreOfLatestRecord ==
    pc # "updating" =>
        \A l \in SeriesLabels(registry) :
            LET key == l[1] \o "_" \o l[2]
            IN  /\ key \in DOMAIN latest_results
                /\ Labels(latest_results[key]) = l
                /\ ShowsRecord(registry, latest_results[key])

\* C16: whenever scan has returned failure, the temporary file that call
\* created no longer exists.
C16_FailedScanLeavesNoFile ==
    (pc = "check_running" /\ created # 0 /\ results_file = 0) =>
        created \notin tmpfiles

(***************************************************************************)
(* PrometheusExporter with its handler alone: update_metrics is called     *)
(* with the records of parsed documents, in any order, on one thread, and  *)
(* GET /results is answered between the calls.                             *)
(***************************************************************************)
\* results documents of two targets under two profiles, one rule each
StoreDocs ==
    { MakeDoc(Header(TRUE, BenchmarkById("b1"), "root", p, t,
                     "1970-01-01T00:00:01Z"),
              << [idref |-> "r1", result |-> res] >>) :
        t \in {"web", "web_db"}, p \in {"cis", "db_cis"}, res \in {"pass", "fail"} }

\* update_metrics as one call: the gauges in the order the code sets them
update_metrics(reg, r) ==
    UpdateInfo(UpdateSeverity(UpdateStatus(UpdateMain(reg, r), r), r), r)

InitStore ==
    /\ pc = "exporter"
    /\ doc = NoDoc
    /\ caller = NoneStr
    /\ result = None
    /\ scans = <<>>
    /\ DaemonIdle

\* result = parse_results(file); if result: exporter.update_metrics(result)
StoreUpdate ==
    /\ pc = "exporter"
    /\ \E d \in StoreDocs, now \in Times :
         /\ result' = parse_results(d, caller, now)
         /\ result' # None
         /\ registry' = update_metrics(registry, result')
         /\ latest_results' = StoreResult(latest_results, result')
    /\ UNCHANGED <<pc, doc, caller, svars, hvars>>

\* do_GET for the path /results
StoreGet ==
    /\ pc = "exporter"
    /\ response' = do_GET("/results", registry, latest_results)
    /\ UNCHANGED <<pc, pvars, svars, evars, server, http_pc>>

NextStore == StoreUpdate \/ StoreGet

SpecStore == InitStore /\ [][NextStore]_vars

\* the <<hostname, profile>> pairs update_metrics was called for: each call
\* sets the scan_info series of its pair
Updated == DOMAIN registry.scan_info

\* C17: records whose hostname or profile differ are stored under different
\* keys: GET /results returns, for every <<hostname, profile>> pair that was
\* updated, a record of that pair.
C17_DistinctPairsBothRetrievable ==
    (response.path = "/results" /\ response.body = latest_results) =>
        \A hp \in Updated :
            \E k \in DOMAIN response.body :
                <<Str(response.body[k].hostname), Str(response.body[k].profile)>> = hp

====
